---------------------------- MODULE Spec2Model ----------------------------
(***************************************************************************)
(* danbooru-utility: the tag/rating/score predicate (tag_check), the       *)
(* record stream (load_data), the output resolver (exists_or_link), the    *)
(* image normalizer (resize_and_save_image), the face cropper              *)
(* (detect_faces), the worker loop (detect_faces_tasker) and the dispatch  *)
(* coordinator (resize_and_save_images_mp) of danbooru_utility.py.         *)
(***************************************************************************)
EXTENDS Integers, Sequences, FiniteSets, TLC

VARIABLES
    tc,       \* tag_check: the filter configuration, the last input and result
    eol,      \* exists_or_link: the last two calls (arguments, result, file system)
    df,       \* detect_faces: the last call (arguments, file system before, result)
    cw,       \* the crop window of one detected rectangle (inputs and result)
    cfg,      \* args of the run: faces, overwrite, max_examples, link_abs, cascade_ok
    lines,    \* the metadata lines read so far (the same files on every run)
    fs,       \* the file system: save directory, link directory
    disp,     \* the dispatch coordinator's locals and position
    queue,    \* task_queue: Task Descriptors and None sentinels
    workers,  \* each pool process: position, local num_processed and metadata
    shared,   \* num_processed_return and metadata_return (manager lists)
    index,    \* index.json: whether it exists and the list it holds
    obs       \* observations of the run: dispatches, image writes, index writes

vars == <<tc, eol, df, cw, cfg, lines, fs, disp, queue, workers, shared, index, obs>>

-----------------------------------------------------------------------------
(* tag_check                                                               *)

\* The tag universe and the ratings ("s,q,e" are the possible entries).
Tags == {"t1", "t2"}

Ratings == {"s", "q", "e"}

\* Scores of the records drawn: -1..MaxScore; range ends 0..MaxEnd.
MaxScore == 2

MaxEnd == 1

\* atleast_num is drawn from 0..MaxNum.
MaxNum == 2

\* --score_range default '-999999999,999999999': the full range.
FullRange == <<-999999999, 999999999>>

\* tag_check with its upper score comparison made strict (>= for >).
TagCheckStrictMax(tags, rating, score, score_range, included_ratings, banned_tags, required_tags, atleast_tags, atleast_num) ==
    IF banned_tags \cap tags # {} THEN FALSE
    ELSE IF required_tags \cap tags # required_tags THEN FALSE
    ELSE IF Cardinality(atleast_tags \cap tags) < atleast_num THEN FALSE
    ELSE IF rating \notin included_ratings THEN FALSE
    ELSE IF score < score_range[1] THEN FALSE
    ELSE IF score >= score_range[2] THEN FALSE
    ELSE TRUE

\* tag_check: the early returns in the order of the code. score is an
\* integer, on which int(score) is the value itself.
TagCheck(tags, rating, score, score_range, included_ratings, banned_tags, required_tags, atleast_tags, atleast_num) ==
    IF banned_tags \cap tags # {} THEN FALSE
    ELSE IF required_tags \cap tags # required_tags THEN FALSE
    ELSE IF Cardinality(atleast_tags \cap tags) < atleast_num THEN FALSE
    ELSE IF rating \notin included_ratings THEN FALSE
    ELSE IF score < score_range[1] THEN FALSE
    ELSE IF score > score_range[2] THEN FALSE
    ELSE TRUE

ScoreRanges == {<<lo, MaxEnd>> : lo \in 0..MaxEnd} \cup {FullRange}

FilterConfigs ==
    [score_range : ScoreRanges, included_ratings : SUBSET {"s", "q"},
     banned_tags : SUBSET Tags, required_tags : SUBSET Tags,
     atleast_tags : SUBSET Tags, atleast_num : 0..MaxNum]

NoCall == [pc |-> "idle"]

\* The filter of a tag_check run: any configuration, no call made yet.
TagInit == tc \in [config : FilterConfigs, call : {NoCall}]

\* One call of tag_check on a record's tags, rating and score.
TagCheckCall ==
    /\ tc.call.pc = "idle"
    /\ \E tags \in SUBSET Tags, rating \in Ratings, score \in (-1)..MaxScore :
        tc' = [tc EXCEPT !.call =
                 [pc |-> "done", tags |-> tags, rating |-> rating, score |-> score,
                  ret |-> TagCheck(tags, rating, score, tc.config.score_range,
                                   tc.config.included_ratings, tc.config.banned_tags,
                                   tc.config.required_tags, tc.config.atleast_tags,
                                   tc.config.atleast_num)]]

TagIdle == [config |-> [score_range |-> FullRange, included_ratings |-> Ratings,
                        banned_tags |-> {"t2"}, required_tags |-> {},
                        atleast_tags |-> {}, atleast_num |-> 0],
            call |-> NoCall]

-----------------------------------------------------------------------------
(* The file system and exists_or_link                                      *)

\* A file name under save_dir and link_dir: <<record id, archive entry, face>>.
\* write_file is <<id, 0, -1>> for "<id>.<ext>" and <<id, e, -1>> for
\* "<id>_<entry e>"; f"face{i}_{write_file}" is <<id, e, i>>.
WriteFile(id, e) == <<id, e, -1>>

FaceFile(i, write_file) == <<write_file[1], write_file[2], i>>

\* files: regular files of save_dir. links: symbolic links of save_dir, the
\* link named n holding the text of link_dir/n. linkdir: files of link_dir.
\* changed: files of link_dir whose content an image write replaced.
EmptyFs == [files |-> {}, links |-> {}, linkdir |-> {}, changed |-> {}]

\* Whether the link save_dir/n, holding the path link_dir/n, leads to the file
\* link_dir/n. The kernel resolves a relative link text from the link's own
\* directory, save_dir, where no link_dir/n is; only an absolute link_dir
\* (link_abs) leads to the file.
LinkResolves(f, n, link_abs) == n \in f.links /\ link_abs /\ n \in f.linkdir

\* os.path.exists(write_path): follows symbolic links, False on a broken one.
PathExists(f, n, link_abs) == n \in f.files \/ LinkResolves(f, n, link_abs)

\* os.symlink(link_path, write_path): FileExistsError (an OSError) when
\* write_path is already an entry of save_dir, a broken link included.
Symlink(f, n) ==
    IF n \in f.files \cup f.links
    THEN [ret |-> "raise", fs |-> f]
    ELSE [ret |-> "true", fs |-> [f EXCEPT !.links = @ \cup {n}]]

\* exists_or_link(write_path, link_path) on the name n of both paths:
\* ret is "true", "false" or "raise" (the OSError of os.symlink).
ExistsOrLink(f, n, link_abs) ==
    IF PathExists(f, n, link_abs) THEN [ret |-> "true", fs |-> f]
    ELSE IF n \in f.linkdir THEN Symlink(f, n)
    ELSE [ret |-> "false", fs |-> f]

\* The names exists_or_link is called on in its own specification.
EolNames == {WriteFile(1, 0), WriteFile(2, 0), FaceFile(0, WriteFile(1, 0))}

\* Any save_dir and link_dir holding regular files, link_dir given as a
\* relative or an absolute path; no call made yet.
EolInit ==
    /\ fs \in [files : SUBSET EolNames, links : {{}}, linkdir : SUBSET EolNames,
               changed : {{}}]
    /\ cfg \in [faces : {FALSE}, overwrite : {FALSE}, max_examples : {0},
                link_abs : BOOLEAN, cascade_ok : {TRUE}]
    /\ eol = [prev |-> NoCall, cur |-> NoCall]

\* One call exists_or_link(save_dir/n, link_dir/n); the call before it is kept.
ExistsOrLinkCall ==
    \E n \in EolNames :
        LET r == ExistsOrLink(fs, n, cfg.link_abs) IN
        /\ fs' = r.fs
        /\ eol' = [prev |-> eol.cur,
                   cur |-> [pc |-> "done", name |-> n, before |-> fs, ret |-> r.ret]]

EolIdle == [prev |-> NoCall, cur |-> NoCall]

-----------------------------------------------------------------------------
(* resize_and_save_image and detect_faces                                  *)

\* Checks for up to 20 faces: range(20).
FaceSlots == 20

\* img.save(path, img.format): open(path, "w+b") follows a symbolic link, so a
\* save on a link that resolves replaces the content of the link_dir file, and
\* a save on a broken link raises (its target directory does not exist).
SaveImage(f, n, link_abs) ==
    IF n \in f.links
    THEN IF LinkResolves(f, n, link_abs)
         THEN [ok |-> TRUE, fs |-> [f EXCEPT !.changed = @ \cup {n}]]
         ELSE [ok |-> FALSE, fs |-> f]
    ELSE [ok |-> TRUE, fs |-> [f EXCEPT !.files = @ \cup {n}]]

\* What a source image is to Image.open and to resize/convert/save: "good",
\* "missing" (Image.open raises) or "unsavable" (resize or save raises).
Images == {"good", "missing", "unsavable"}

\* resize_and_save_image calling exists_or_link whatever overwrite is.
ResizeAndSaveImageResolving(f, write_file, overwrite, link_abs, img) ==
    LET r == ExistsOrLink(f, write_file, link_abs)
        s == SaveImage(r.fs, write_file, link_abs)
        none == [raised |-> FALSE, ret |-> 0, fs |-> r.fs, wrote |-> {}, loaded |-> FALSE]
        tried == [none EXCEPT !.loaded = TRUE]
    IN  IF r.ret = "raise" THEN [none EXCEPT !.raised = TRUE]
        ELSE IF r.ret = "true" THEN [none EXCEPT !.ret = 1]
        ELSE IF img = "missing" THEN tried
        ELSE IF img = "unsavable" THEN tried
        ELSE IF s.ok THEN [raised |-> FALSE, ret |-> 1, fs |-> s.fs, wrote |-> {write_file},
                           loaded |-> TRUE]
        ELSE tried

\* resize_and_save_image(load_path, write_file, save_dir, link_dir, img_size,
\* overwrite): ret is the 0 or 1 returned, unless raised (the OSError of
\* exists_or_link, which no try of the function encloses); wrote holds the
\* names an image was saved to; loaded tells whether Image.open(load_path)
\* was reached.
ResizeAndSaveImage(f, write_file, overwrite, link_abs, img) ==
    LET r == IF overwrite THEN [ret |-> "false", fs |-> f]
             ELSE ExistsOrLink(f, write_file, link_abs)
        s == SaveImage(r.fs, write_file, link_abs)
        none == [raised |-> FALSE, ret |-> 0, fs |-> r.fs, wrote |-> {}, loaded |-> FALSE]
        tried == [none EXCEPT !.loaded = TRUE]
    IN  IF r.ret = "raise" THEN [none EXCEPT !.raised = TRUE]
        ELSE IF r.ret = "true" THEN [none EXCEPT !.ret = 1]
        ELSE IF img = "missing" THEN tried
        ELSE IF img = "unsavable" THEN tried
        ELSE IF s.ok THEN [raised |-> FALSE, ret |-> 1, fs |-> s.fs, wrote |-> {write_file},
                           loaded |-> TRUE]
        ELSE tried

\* The pre-check loop of detect_faces from slot i on, overwrite being False:
\* out is "proceed" (the loop ran out), "return" (a slot not satisfied after a
\* satisfied one) or "raise" (the OSError of exists_or_link).
\* (PreCheck binds the file system and the count of each pass to their
\* values, so that a pass is evaluated once however often it is referred to.)
RECURSIVE PreCheck(_, _, _, _, _)
RECURSIVE PreCheckStep(_, _, _, _, _)
PreCheck(f, write_file, link_abs, i, num_processed) ==
    CHOOSE res \in {PreCheckStep(g, write_file, link_abs, i, n) : g \in {f}, n \in {num_processed}} : TRUE

PreCheckStep(f, write_file, link_abs, i, num_processed) ==
    IF i >= FaceSlots
    THEN [out |-> "proceed", num |-> num_processed, fs |-> f]
    ELSE LET r == ExistsOrLink(f, FaceFile(i, write_file), link_abs) IN
         IF r.ret = "raise"
         THEN [out |-> "raise", num |-> num_processed, fs |-> r.fs]
         ELSE IF r.ret = "true"
         THEN PreCheck(r.fs, write_file, link_abs, i + 1, num_processed + 1)
         ELSE IF num_processed > 0
         THEN [out |-> "return", num |-> num_processed, fs |-> r.fs]
         ELSE PreCheck(r.fs, write_file, link_abs, i + 1, num_processed)

\* What one detected rectangle comes to: "small" (a crop dimension below
\* img_size: continue), "fail" (resize or save raises) or "ok".
Crops == {"ok", "small", "fail"}

\* The loop over the detected faces with the crop named after the position of
\* its rectangle in the list, not after the count of crops saved so far.
RECURSIVE CropLoopByIndex(_, _, _, _, _, _)
CropLoopByIndex(f, write_file, link_abs, faces, k, acc) ==
    IF k > Len(faces) THEN [acc EXCEPT !.fs = f]
    ELSE LET n == FaceFile(k - 1, write_file)
             s == SaveImage(f, n, link_abs)
         IN  IF faces[k] = "ok" /\ s.ok
             THEN CropLoopByIndex(s.fs, write_file, link_abs, faces, k + 1,
                                  [acc EXCEPT !.num = @ + 1, !.filename = n,
                                              !.metadata = @ + 1, !.wrote = @ \cup {n}])
             ELSE CropLoopByIndex(f, write_file, link_abs, faces, k + 1, acc)

\* The loop over the detected faces from the k-th on. metadata counts the
\* appends of info, filename is info["filename"]: every append is of the one
\* dict info, so the last assignment is what all of them hold.
\* (CropLoop binds the file system and the accumulated result
\* of each pass to their values, as PreCheck does.)
RECURSIVE CropLoop(_, _, _, _, _, _)
RECURSIVE CropStep(_, _, _, _, _, _)
CropLoop(f, write_file, link_abs, faces, k, acc) ==
    CHOOSE res \in {CropStep(g, write_file, link_abs, faces, k, a) : g \in {f}, a \in {acc}} : TRUE

CropStep(f, write_file, link_abs, faces, k, acc) ==
    IF k > Len(faces) THEN [acc EXCEPT !.fs = f]
    ELSE LET n == FaceFile(acc.num, write_file)
             s == SaveImage(f, n, link_abs)
         IN  IF faces[k] = "ok" /\ s.ok
             THEN CropLoop(s.fs, write_file, link_abs, faces, k + 1,
                           [acc EXCEPT !.num = @ + 1, !.filename = n,
                                       !.metadata = @ + 1, !.wrote = @ \cup {n}])
             ELSE CropLoop(f, write_file, link_abs, faces, k + 1, acc)

\* The list a metadata list of n references to one record dict serializes
\* (or pickles) to: n copies of the record with its filename as it is then.
Annotated(id, n, filename) == [j \in 1..n |-> [rec |-> id, filename |-> filename]]

\* detect_faces(load_path, write_file, ..., overwrite, info): img tells whether
\* Image.open reads the source and what detectMultiScale's rectangles come to,
\* in the order they are returned. out is "return"
\* or "raise" (the OSError of exists_or_link, or the RuntimeError of a missing
\* cascade file); pre is how the pre-check ended ("proceed" with overwrite),
\* loaded whether Image.open(load_path) was reached.
DetectFaces(f, write_file, id, c, img) ==
    LET pre == IF c.overwrite THEN [out |-> "proceed", num |-> 0, fs |-> f]
               ELSE PreCheck(f, write_file, c.link_abs, 0, 0)
        none == [out |-> "return", num |-> 0, metadata |-> << >>, fs |-> pre.fs,
                 wrote |-> {}, pre |-> pre.out, loaded |-> FALSE]
        crop == CropLoop(pre.fs, write_file, c.link_abs, img.faces, 1,
                         [num |-> 0, metadata |-> 0, filename |-> << >>,
                          wrote |-> {}, fs |-> pre.fs])
    IN  IF pre.out = "raise" THEN [none EXCEPT !.out = "raise"]
        ELSE IF pre.out = "return" THEN [none EXCEPT !.num = pre.num]
        ELSE IF ~c.cascade_ok THEN [none EXCEPT !.out = "raise"]
        ELSE IF ~img.readable THEN [none EXCEPT !.loaded = TRUE]
        ELSE [out |-> "return", num |-> crop.num,
              metadata |-> Annotated(id, crop.metadata, crop.filename),
              fs |-> crop.fs, wrote |-> crop.wrote, pre |-> pre.out, loaded |-> TRUE]

-----------------------------------------------------------------------------
(* load_data, resize_and_save_images_mp and detect_faces_tasker            *)

\* NCORE = mp.cpu_count(): the pool's processes and the queue's maxsize.
NCORE == 2

\* --max_examples default 1e15, written as the largest integer the model
\* checker holds: no run of the model comes near either.
DefaultMaxExamples == 2147483647

\* At most MaxLines metadata lines, MaxEntries names in an archive (in the
\* face mode, where each is a task of the pool, MaxFaceEntries), MaxFaces
\* detected rectangles (or FaceSlots of them), max_examples in 0..MaxCap or
\* the default, MaxRuns runs over the same directories.
MaxLines == 2

MaxEntries == 2

MaxFaceEntries == 1

MaxFaces == 1

MaxCap == 1

MaxRuns == 2

\* A metadata line: not JSON ("bad"), a record with a banned tag ("rej"), a
\* record of an image ("jpg") or of an archive ("zip"); "eof" ends the files.
LineKinds == {"bad", "rej", "jpg", "zip"}

\* json.loads(line) of a record line: the fields tag_check and the
\* dispatcher read. The record's id is its line number.
Example(kind) ==
    [tags |-> IF kind = "rej" THEN {"t1", "t2"} ELSE {"t1"},
     rating |-> "s", score |-> 1,
     file_ext |-> IF kind = "zip" THEN "zip" ELSE "jpg"]

\* load_data's filter with the test inverted.
PassesInverted(example) ==
    ~TagCheck(example.tags, example.rating, example.score, tc.config.score_range,
              tc.config.included_ratings, tc.config.banned_tags,
              tc.config.required_tags, tc.config.atleast_tags, tc.config.atleast_num)

\* load_data's call of tag_check on a parsed line, with the args' filter.
Passes(example) ==
    TagCheck(example.tags, example.rating, example.score, tc.config.score_range,
             tc.config.included_ratings, tc.config.banned_tags,
             tc.config.required_tags, tc.config.atleast_tags, tc.config.atleast_num)

\* What detect_faces finds in a source image: no readable image, or the list
\* of what its detected rectangles come to.
FaceLists ==
    UNION {[1..n -> Crops] : n \in 0..MaxFaces} \cup {[j \in 1..FaceSlots |-> "ok"]}

FaceImages ==
    {[readable |-> FALSE, faces |-> << >>]} \cup {[readable |-> TRUE, faces |-> l] : l \in FaceLists}

\* index.json: absent, or the "data" list of the last write.
NoIndex == [exists |-> FALSE, data |-> << >>]

CleanDisp ==
    [pc |-> "next", pos |-> 1, i |-> 0, num_processed |-> 0, metadata |-> << >>,
     filename |-> << >>, example |-> 0, zip_n |-> 0, zip_k |-> 0,
     sentinels |-> 0, closed |-> FALSE]

CleanWorkers == [w \in 1..NCORE |-> [pc |-> "loop", num_processed |-> 0, metadata |-> << >>]]

CleanShared == [num_processed_return |-> << >>, metadata_return |-> << >>]

\* What a run has done so far: tasks dispatched and those counted in i, images
\* that failed to load or save (and archives, by the name "<id>.zip", that
\* failed to open), inline calls that returned 1, names an image
\* was saved to, results a dead worker took with it, writes of index.json, how
\* the loop over the records ended; the entries of save_dir as the run began
\* and whether every run before this one was without --overwrite; the tasks
\* detect_faces was called on, in order, and the counts and metadata its
\* calls returned; the tasks whose source image a call went to open.
CleanObs(run, had, kept) ==
    [run |-> run, dispatched |-> << >>, counted |-> {}, failed |-> {}, succeeded |-> {},
     wrote |-> {}, lost |-> FALSE, index_writes |-> 0, stop |-> "none", had |-> had,
     kept |-> kept, invoked |-> << >>, result_num |-> 0, result_meta |-> << >>,
     loaded |-> {}]

\* What link_dir holds as the first run begins, if anything: outputs of the
\* first record, plain in the inline mode and face crops in the face mode.
LinkNames(faces) ==
    IF faces THEN {FaceFile(0, WriteFile(1, 0)), FaceFile(1, WriteFile(1, 0))}
    ELSE {WriteFile(1, 0), WriteFile(1, 1)}

\* main(): the args, an empty save_dir (os.makedirs), any link_dir; then
\* resize_and_save_images_mp's locals, manager queue and lists, and pool.
\* The cascade file is looked for in the face mode only, and link_dir's being
\* relative or absolute shows only when it holds a file.
PipeInit ==
    /\ cfg \in [faces : BOOLEAN, overwrite : BOOLEAN,
                max_examples : (0..MaxCap) \cup {DefaultMaxExamples},
                link_abs : BOOLEAN, cascade_ok : BOOLEAN]
    /\ cfg.faces \/ cfg.cascade_ok
    /\ fs \in [files : {{}}, links : {{}}, linkdir : {{}, LinkNames(cfg.faces)},
               changed : {{}}]
    /\ fs.linkdir # {} \/ cfg.link_abs
    /\ lines = << >>
    /\ disp = CleanDisp
    /\ queue = << >>
    /\ workers = CleanWorkers
    /\ shared = CleanShared
    /\ index = NoIndex
    /\ obs = CleanObs(1, {}, TRUE)

\* The line load_data reads at disp.pos: the one read there by an earlier
\* run, or a new one (the files end after MaxLines lines at the latest).
LineAt(ln) ==
    IF disp.pos <= Len(lines) THEN ln = lines[disp.pos]
    ELSE IF Len(lines) >= MaxLines THEN ln = "eof"
    ELSE ln \in LineKinds \cup {"eof"}

Recorded(ln) == IF disp.pos <= Len(lines) THEN lines ELSE Append(lines, ln)

\* json.loads raising on a line, caught and taken for the end of the files.
OnBadLineBreak(d) == [d EXCEPT !.pc = "sentinel"]

\* json.loads raises on a line that is not JSON: nothing in load_data or in
\* resize_and_save_images_mp (whose try begins inside the loop body) catches
\* it, and the run ends there.
OnBadLine(d) == [d EXCEPT !.pc = "failed"]

\* The loop head "for example in data_gen" with the break on max_examples:
\* load_data reads one line. A line that is not JSON raises out of the
\* generator and out of resize_and_save_images_mp; a record tag_check rejects
\* is skipped; one it accepts is yielded, and the loop breaks if
\* i >= max_examples; the end of the files ends the loop.
LoadData ==
    /\ disp.pc = "next"
    /\ \E ln \in LineKinds \cup {"eof"} :
        /\ LineAt(ln)
        /\ lines' = Recorded(ln)
        /\ IF ln = "eof"
           THEN /\ disp' = [disp EXCEPT !.pc = "sentinel"]
                /\ obs' = [obs EXCEPT !.stop = "eof"]
           ELSE IF ln = "bad"
           THEN /\ disp' = OnBadLine(disp)
                /\ obs' = [obs EXCEPT !.stop = "parse"]
           ELSE IF ~Passes(Example(ln))
           THEN /\ disp' = [disp EXCEPT !.pos = @ + 1]
                /\ obs' = obs
           ELSE IF disp.i >= cfg.max_examples
           THEN /\ disp' = [disp EXCEPT !.pos = @ + 1, !.pc = "sentinel"]
                /\ obs' = [obs EXCEPT !.stop = "cap"]
           ELSE /\ disp' = [disp EXCEPT !.pos = @ + 1, !.pc = "body",
                                        !.example = disp.pos]
                /\ obs' = obs
    /\ UNCHANGED <<tc, eol, df, cw, cfg, fs, queue, workers, shared, index>>

\* The sentinel None of the queue.
None == [sentinel |-> TRUE]

\* The Task Descriptor put on the queue: load_path and write_file of the
\* record (or archive entry), and a pickled copy of the record.
Task(write_file, id) == [write_file |-> write_file, info |-> id]

\* After "i += 1" inside the loop over zip_ref.namelist(): break when
\* i >= max_examples, the next name otherwise, and after the last name (or the
\* break) zip_ref.close() and continue.
ZipAdvance(d) ==
    IF d.i >= cfg.max_examples \/ d.zip_k >= d.zip_n
    THEN [d EXCEPT !.pc = "next"]
    ELSE [d EXCEPT !.zip_k = @ + 1]

\* The inline branch appending the record whatever resize_and_save_image
\* returned.
InlineAlwaysAppend(d, write_file, r) ==
    IF r.raised THEN [d EXCEPT !.pc = "next"]
    ELSE [d EXCEPT !.num_processed = @ + r.ret, !.i = @ + 1,
                   !.filename = (d.example :> write_file) @@ @,
                   !.metadata = Append(@, d.example)]

\* The inline branch on write_file, r being resize_and_save_image's outcome:
\* an OSError is caught by the loop's except clause (nothing counted); else
\* num_processed and i grow, and when r.ret > 0 the record's own dict gets
\* example["filename"] = write_file and is appended to metadata once more.
Inline(d, write_file, r) ==
    IF r.raised THEN [d EXCEPT !.pc = "next"]
    ELSE IF r.ret > 0
    THEN [d EXCEPT !.num_processed = @ + r.ret, !.i = @ + 1,
                   !.filename = (d.example :> write_file) @@ @,
                   !.metadata = Append(@, d.example)]
    ELSE [d EXCEPT !.i = @ + 1]

ObsInline(write_file, r) ==
    [obs EXCEPT !.dispatched = Append(@, write_file),
                !.counted = IF r.raised THEN @ ELSE @ \cup {write_file},
                !.failed = IF ~r.raised /\ r.ret = 0 THEN @ \cup {write_file} ELSE @,
                !.succeeded = IF ~r.raised /\ r.ret = 1 THEN @ \cup {write_file} ELSE @,
                !.wrote = @ \cup r.wrote,
                !.loaded = IF r.loaded THEN @ \cup {write_file} ELSE @]

ObsPut(write_file) ==
    [obs EXCEPT !.dispatched = Append(@, write_file), !.counted = @ \cup {write_file}]

\* Not an archive, inline mode: resize_and_save_image on "<id>.<ext>".
ResizeImage ==
    /\ disp.pc = "body" /\ Example(lines[disp.example]).file_ext # "zip"
    /\ ~cfg.faces
    /\ \E img \in Images :
        LET wf == WriteFile(disp.example, 0)
            r == ResizeAndSaveImage(fs, wf, cfg.overwrite, cfg.link_abs, img)
            d == Inline(disp, wf, r)
        IN  /\ fs' = r.fs
            /\ disp' = [d EXCEPT !.pc = "next"]
            /\ obs' = ObsInline(wf, r)
    /\ UNCHANGED <<tc, eol, df, cw, cfg, lines, queue, workers, shared, index>>

\* Not an archive, face mode: task_queue.put blocks while the queue is full.
PutImage ==
    /\ disp.pc = "body" /\ Example(lines[disp.example]).file_ext # "zip"
    /\ cfg.faces
    /\ Len(queue) < NCORE
    /\ LET wf == WriteFile(disp.example, 0) IN
        /\ queue' = Append(queue, Task(wf, disp.example))
        /\ disp' = [disp EXCEPT !.i = @ + 1, !.pc = "next"]
        /\ obs' = ObsPut(wf)
    /\ UNCHANGED <<tc, eol, df, cw, cfg, lines, fs, workers, shared, index>>

\* An archive: ZipFile and extractall. A failure prints and continues with the
\* next record; else the loop over the n names begins (no name, no pass).
OpenZip ==
    /\ disp.pc = "body" /\ Example(lines[disp.example]).file_ext = "zip"
    /\ \/ /\ disp' = [disp EXCEPT !.pc = "next"]
          /\ obs' = [obs EXCEPT !.failed = @ \cup {WriteFile(disp.example, 0)}]
       \/ /\ \E n \in 0..(IF cfg.faces THEN MaxFaceEntries ELSE MaxEntries) :
                disp' = [disp EXCEPT !.pc = IF n = 0 THEN "next" ELSE "zip",
                                     !.zip_n = n, !.zip_k = 1]
          /\ obs' = obs
    /\ UNCHANGED <<tc, eol, df, cw, cfg, lines, fs, queue, workers, shared, index>>

\* One name of the archive, inline mode: write_file is "<id>_<name>".
ResizeEntry ==
    /\ disp.pc = "zip" /\ ~cfg.faces
    /\ \E img \in Images :
        LET wf == WriteFile(disp.example, disp.zip_k)
            r == ResizeAndSaveImage(fs, wf, cfg.overwrite, cfg.link_abs, img)
            d == Inline(disp, wf, r)
        IN  /\ fs' = r.fs
            /\ disp' = IF r.raised THEN d ELSE ZipAdvance(d)
            /\ obs' = ObsInline(wf, r)
    /\ UNCHANGED <<tc, eol, df, cw, cfg, lines, queue, workers, shared, index>>

\* One name of the archive, face mode.
PutEntry ==
    /\ disp.pc = "zip" /\ cfg.faces
    /\ Len(queue) < NCORE
    /\ LET wf == WriteFile(disp.example, disp.zip_k) IN
        /\ queue' = Append(queue, Task(wf, disp.example))
        /\ disp' = ZipAdvance([disp EXCEPT !.i = @ + 1])
        /\ obs' = ObsPut(wf)
    /\ UNCHANGED <<tc, eol, df, cw, cfg, lines, fs, workers, shared, index>>

RECURSIVE Sum(_)
Sum(q) == IF q = << >> THEN 0 ELSE Head(q) + Sum(Tail(q))

\* One pass of detect_faces_tasker's loop on a Task Descriptor. When
\* detect_faces returns, its count and metadata are added to the worker's
\* own. When it raises, nothing in the pool's initializer catches it: the
\* process ends and what it had accumulated goes with it.
WorkerTask(w) ==
    /\ workers[w].pc = "loop"
    /\ queue # << >> /\ Head(queue) # None
    /\ \E img \in FaceImages :
        LET t == Head(queue)
            r == DetectFaces(fs, t.write_file, t.info, cfg, img)
        IN  /\ fs' = r.fs
            /\ IF r.out = "return"
               THEN /\ workers' = [workers EXCEPT ![w].num_processed = @ + r.num,
                                                  ![w].metadata = @ \o r.metadata]
                    /\ obs' = [obs EXCEPT !.wrote = @ \cup r.wrote,
                                          !.failed = IF ~img.readable /\ r.num = 0
                                                     THEN @ \cup {t.write_file} ELSE @,
                                          !.invoked = Append(@, t.write_file),
                                          !.result_num = @ + r.num,
                                          !.result_meta = @ \o r.metadata,
                                          !.loaded = IF r.loaded THEN @ \cup {t.write_file}
                                                     ELSE @]
               ELSE /\ workers' = [workers EXCEPT ![w] = [pc |-> "dead", num_processed |-> 0,
                                                          metadata |-> << >>]]
                    /\ obs' = [obs EXCEPT !.lost = @ \/ workers[w].num_processed > 0
                                                     \/ workers[w].metadata # << >>,
                                          !.invoked = Append(@, t.write_file)]
    /\ queue' = Tail(queue)
    /\ UNCHANGED <<tc, eol, df, cw, cfg, lines, disp, shared, index>>

\* The pool replaces a process that ended, as long as it is not closed: the
\* new process runs the initializer detect_faces_tasker from its start.
Respawn(w) ==
    /\ workers[w].pc = "dead" /\ ~disp.closed
    /\ workers' = [workers EXCEPT ![w].pc = "loop"]
    /\ UNCHANGED <<tc, eol, df, cw, cfg, lines, fs, disp, queue, shared, index, obs>>

\* The sentinel None: break, then the two appends to the manager lists.
WorkerExit(w) ==
    /\ workers[w].pc = "loop"
    /\ queue # << >> /\ Head(queue) = None
    /\ queue' = Tail(queue)
    /\ shared' = [num_processed_return |->
                      Append(shared.num_processed_return, workers[w].num_processed),
                  metadata_return |-> shared.metadata_return \o workers[w].metadata]
    /\ workers' = [workers EXCEPT ![w].pc = "exited"]
    /\ UNCHANGED <<tc, eol, df, cw, cfg, lines, fs, disp, index, obs>>

\* The sentinels put on a queue without maxsize: no put ever blocks.
PutSentinelUnbounded ==
    /\ disp.pc = "sentinel" /\ disp.sentinels < NCORE
    /\ queue' = Append(queue, None)
    /\ disp' = [disp EXCEPT !.sentinels = @ + 1]
    /\ UNCHANGED <<tc, eol, df, cw, cfg, lines, fs, workers, shared, index, obs>>

\* for _ in range(NCORE): task_queue.put(None), each put blocking while the
\* queue is full.
PutSentinel ==
    /\ disp.pc = "sentinel" /\ disp.sentinels < NCORE
    /\ Len(queue) < NCORE
    /\ queue' = Append(queue, None)
    /\ disp' = [disp EXCEPT !.sentinels = @ + 1]
    /\ UNCHANGED <<tc, eol, df, cw, cfg, lines, fs, workers, shared, index, obs>>

\* pool.close().
PoolClose ==
    /\ disp.pc = "sentinel" /\ disp.sentinels >= NCORE
    /\ disp' = [disp EXCEPT !.closed = TRUE, !.pc = "join"]
    /\ UNCHANGED <<tc, eol, df, cw, cfg, lines, fs, queue, workers, shared, index, obs>>

\* pool.join() returns once every process of the pool has ended.
Joined == \A w \in 1..NCORE : workers[w].pc \in {"exited", "dead"}

PoolJoin ==
    /\ disp.pc = "join"
    /\ Joined
    /\ disp' = [disp EXCEPT !.pc = "write"]
    /\ UNCHANGED <<tc, eol, df, cw, cfg, lines, fs, queue, workers, shared, index, obs>>

\* json.dumps of the dispatcher's own metadata list: each element is a
\* reference to a record dict, written with the filename that dict holds now.
Dump(metadata, filename) ==
    [k \in 1..Len(metadata) |-> [rec |-> metadata[k], filename |-> filename[metadata[k]]]]

\* The merge of the manager lists and the write of index.json.
WriteIndex ==
    /\ disp.pc = "write"
    /\ disp' = [disp EXCEPT !.num_processed = @ + Sum(shared.num_processed_return),
                            !.pc = "done"]
    /\ index' = [exists |-> TRUE,
                 data |-> Dump(disp.metadata, disp.filename) \o shared.metadata_return]
    /\ obs' = [obs EXCEPT !.index_writes = @ + 1]
    /\ UNCHANGED <<tc, eol, df, cw, cfg, lines, fs, queue, workers, shared>>

\* The program is run again over the same metadata files and directories,
\* with --overwrite given or not; the pool's processes of the run before are
\* gone with it.
Rerun ==
    /\ disp.pc \in {"done", "failed"}
    /\ obs.run < MaxRuns
    /\ \E ow \in BOOLEAN : cfg' = [cfg EXCEPT !.overwrite = ow]
    /\ disp' = CleanDisp
    /\ queue' = << >>
    /\ workers' = CleanWorkers
    /\ shared' = CleanShared
    /\ obs' = CleanObs(obs.run + 1, fs.files \cup fs.links, obs.kept /\ ~cfg.overwrite)
    /\ UNCHANGED <<tc, eol, df, cw, lines, fs, index>>

-----------------------------------------------------------------------------
(* detect_faces alone                                                      *)

\* At most MaxRects detected rectangles (or FaceSlots of them, all saved), and
\* save_dir holding the first n face slots of the image for n up to MaxSlots,
\* a slot after a gap, all FaceSlots slots or all but the last.
MaxRects == 3

MaxSlots == 2

RectLists ==
    UNION {[1..n -> Crops] : n \in 0..MaxRects} \cup {[j \in 1..FaceSlots |-> "ok"]}

RectImages ==
    {[readable |-> FALSE, faces |-> << >>]} \cup {[readable |-> TRUE, faces |-> l] : l \in RectLists}

SlotSets ==
    {0..(n - 1) : n \in 0..MaxSlots}
        \cup {{1}, {0, 2}, 0..(FaceSlots - 1), 0..(FaceSlots - 2), 2..(FaceSlots - 1)}

SlotFiles(slots) == {FaceFile(i, WriteFile(1, 0)) : i \in slots}

\* The args and directories of a detect_faces call: save_dir holds face crops
\* of the image or none, link_dir some of its first two, and save_dir may
\* hold the links to them that a run before made; no call made yet.
FacesInit ==
    /\ cfg \in [faces : {TRUE}, overwrite : BOOLEAN, max_examples : {0},
                link_abs : BOOLEAN, cascade_ok : BOOLEAN]
    /\ fs \in [files : {SlotFiles(sl) : sl \in SlotSets},
               links : {SlotFiles(sl) : sl \in SUBSET (0..1)},
               linkdir : {SlotFiles(sl) : sl \in SUBSET (0..1)}, changed : {{}}]
    /\ fs.links \subseteq fs.linkdir /\ fs.links \cap fs.files = {}
    /\ df = NoCall

\* One call detect_faces(load_path, write_file, save_dir, link_dir, ...,
\* overwrite, info) on the image of record 1.
DetectFacesCall ==
    /\ df.pc = "idle"
    /\ \E img \in RectImages :
        LET wf == WriteFile(1, 0)
            r == DetectFaces(fs, wf, 1, cfg, img)
        IN  /\ fs' = r.fs
            /\ df' = [pc |-> "done", write_file |-> wf, before |-> fs, img |-> img,
                      out |-> r.out, pre |-> r.pre, num |-> r.num,
                      metadata |-> r.metadata, wrote |-> r.wrote]

-----------------------------------------------------------------------------
(* The crop window of detect_faces                                         *)

MaxDim == 3

MaxScale == 2

MaxSize == 2

Min(a, b) == IF a <= b THEN a ELSE b

\* int(n / d) of Python for d > 0: the quotient cut toward zero.
IntOfQuotient(n, d) == IF n >= 0 THEN n \div d ELSE 0 - ((0 - n) \div d)

\* The number of indices a slice a[lo : lo + len] takes of an axis of dim
\* elements, lo and len not negative: numpy cuts the slice at the axis' end.
SliceLen(lo, len, dim) == Min(lo + len, dim) - Min(lo, dim)

\* The crop window with the rectangle centred in height as it is in width:
\* cropy = int(y - (croph - h) / 2).
CropWindowCentred(x, y, w, h, width, height, face_scale, img_size) ==
    LET cropw == w * face_scale
        croph == h * face_scale
        px == IntOfQuotient(2 * x - (cropw - w), 2)
        py == IntOfQuotient(2 * y - (croph - h), 2)
        cropx == IF px < 0 THEN 0 ELSE px
        cropy == IF py < 0 THEN 0 ELSE py
        rows == SliceLen(cropy, croph, height)
        cols == SliceLen(cropx, cropw, width)
    IN  [cropw |-> cropw, croph |-> croph, cropx |-> cropx, cropy |-> cropy,
         rows |-> rows, cols |-> cols, kept |-> ~(rows < img_size \/ cols < img_size)]

\* Lines 468-480 on the rectangle (x, y, w, h) of an image of width by height
\* pixels, face_scale being a whole number: the window asked for, its origin
\* after the clamps, the shape of crop_img and whether the size check lets
\* the crop go on to be saved.
CropWindow(x, y, w, h, width, height, face_scale, img_size) ==
    LET cropw == w * face_scale
        croph == h * face_scale
        px == IntOfQuotient(2 * x - (cropw - w), 2)
        py == IntOfQuotient(4 * y - (croph - h), 4)
        cropx == IF px < 0 THEN 0 ELSE px
        cropy == IF py < 0 THEN 0 ELSE py
        rows == SliceLen(cropy, croph, height)
        cols == SliceLen(cropx, cropw, width)
    IN  [cropw |-> cropw, croph |-> croph, cropx |-> cropx, cropy |-> cropy,
         rows |-> rows, cols |-> cols, kept |-> ~(rows < img_size \/ cols < img_size)]

\* A rectangle, an image and the two args of a crop, no window computed yet.
CropInit ==
    cw \in [pc : {"idle"}, x : 0..(MaxDim - 1), y : 0..(MaxDim - 1), w : 1..MaxDim,
            h : 1..MaxDim, width : 1..MaxDim, height : 1..MaxDim,
            face_scale : 1..MaxScale, img_size : 0..MaxSize]

\* One pass of the loop over faces up to the size check.
CropWindowCall ==
    /\ cw.pc = "idle"
    /\ cw' = [pc |-> "done", rect |-> cw,
              win |-> CropWindow(cw.x, cw.y, cw.w, cw.h, cw.width, cw.height,
                                 cw.face_scale, cw.img_size)]

-----------------------------------------------------------------------------
(* Specifications                                                          *)

\* The pipeline: runs of main().
Init == tc = TagIdle /\ eol = EolIdle /\ df = NoCall /\ cw = NoCall /\ PipeInit

Next ==
    \/ LoadData
    \/ ResizeImage
    \/ PutImage
    \/ OpenZip
    \/ ResizeEntry
    \/ PutEntry
    \/ \E w \in 1..NCORE : WorkerTask(w)
    \/ \E w \in 1..NCORE : Respawn(w)
    \/ \E w \in 1..NCORE : WorkerExit(w)
    \/ PutSentinel
    \/ PoolClose
    \/ PoolJoin
    \/ WriteIndex
    \/ Rerun

Spec == Init /\ [][Next]_vars

\* One run of main(), with the scheduling the operating system gives: the
\* main process takes its next step when it can, so does every pool process,
\* and the pool's handler thread replaces a process that ended.
Dispatcher ==
    \/ LoadData
    \/ ResizeImage
    \/ PutImage
    \/ OpenZip
    \/ ResizeEntry
    \/ PutEntry
    \/ PutSentinel
    \/ PoolClose
    \/ PoolJoin
    \/ WriteIndex

Worker(w) == WorkerTask(w) \/ WorkerExit(w)

NextRun ==
    \/ Dispatcher
    \/ \E w \in 1..NCORE : Worker(w)
    \/ \E w \in 1..NCORE : Respawn(w)

Fairness ==
    /\ WF_vars(Dispatcher)
    /\ \A w \in 1..NCORE : WF_vars(Worker(w))
    /\ \A w \in 1..NCORE : WF_vars(Respawn(w))

SpecRun == Init /\ [][NextRun]_vars /\ Fairness

\* tag_check alone, on every configuration and record of the bounded sets.
InitTag ==
    /\ TagInit
    /\ eol = EolIdle /\ df = NoCall /\ cw = NoCall
    /\ cfg = [faces |-> FALSE, overwrite |-> FALSE, max_examples |-> 0,
              link_abs |-> TRUE, cascade_ok |-> TRUE]
    /\ lines = << >> /\ fs = EmptyFs /\ disp = CleanDisp /\ queue = << >>
    /\ workers = CleanWorkers /\ shared = CleanShared /\ index = NoIndex
    /\ obs = CleanObs(1, {}, TRUE)

NextTag == TagCheckCall /\ UNCHANGED <<eol, df, cw, cfg, lines, fs, disp, queue, workers, shared, index, obs>>

SpecTag == InitTag /\ [][NextTag]_vars

\* exists_or_link alone, on every small save_dir and link_dir.
InitLink ==
    /\ tc = TagIdle /\ df = NoCall /\ cw = NoCall
    /\ EolInit
    /\ lines = << >> /\ disp = CleanDisp /\ queue = << >>
    /\ workers = CleanWorkers /\ shared = CleanShared /\ index = NoIndex
    /\ obs = CleanObs(1, {}, TRUE)

NextLink == ExistsOrLinkCall /\ UNCHANGED <<tc, df, cw, cfg, lines, disp, queue, workers, shared, index, obs>>

SpecLink == InitLink /\ [][NextLink]_vars

\* detect_faces alone, on every small save_dir, link_dir and detection result.
InitFaces ==
    /\ tc = TagIdle /\ eol = EolIdle /\ cw = NoCall
    /\ FacesInit
    /\ lines = << >> /\ disp = CleanDisp /\ queue = << >>
    /\ workers = CleanWorkers /\ shared = CleanShared /\ index = NoIndex
    /\ obs = CleanObs(1, {}, TRUE)

NextFaces == DetectFacesCall /\ UNCHANGED <<tc, eol, cw, cfg, lines, disp, queue, workers, shared, index, obs>>

SpecFaces == InitFaces /\ [][NextFaces]_vars

\* The crop window alone, on every small rectangle, image and scale.
InitCrop ==
    /\ tc = TagIdle /\ eol = EolIdle /\ df = NoCall
    /\ CropInit
    /\ cfg = [faces |-> TRUE, overwrite |-> FALSE, max_examples |-> 0,
              link_abs |-> TRUE, cascade_ok |-> TRUE]
    /\ lines = << >> /\ fs = EmptyFs /\ disp = CleanDisp /\ queue = << >>
    /\ workers = CleanWorkers /\ shared = CleanShared /\ index = NoIndex
    /\ obs = CleanObs(1, {}, TRUE)

NextCrop == CropWindowCall /\ UNCHANGED <<tc, eol, df, cfg, lines, fs, disp, queue, workers, shared, index, obs>>

SpecCrop == InitCrop /\ [][NextCrop]_vars

-----------------------------------------------------------------------------
(* Claims                                                                  *)

\* The five conditions of the filter on the record of the last tag_check call.
NoBanned == tc.config.banned_tags \cap tc.call.tags = {}

HasRequired == tc.config.required_tags \subseteq tc.call.tags

HasAtLeast == Cardinality(tc.config.atleast_tags \cap tc.call.tags) >= tc.config.atleast_num

RatingIncluded == tc.call.rating \in tc.config.included_ratings

ScoreInRange ==
    tc.config.score_range[1] <= tc.call.score /\ tc.call.score <= tc.config.score_range[2]

\* C1: tag_check returns true if and only if the five conditions hold
\* together: no banned tag among the tags, every required tag among them, at
\* least atleast_num of the atleast_tags among them, the rating included, and
\* the score within the range, both ends included.
C1_TagCheckIffAllFive ==
    tc.call.pc = "done" =>
        (tc.call.ret <=>
            (NoBanned /\ HasRequired /\ HasAtLeast /\ RatingIncluded /\ ScoreInRange))

\* C1 witness: a record accepted with its score on the upper end of a range
\* below the full one, under a filter that bans and requires tags.
C1_Witness ==
    /\ tc.call.pc = "done" /\ tc.call.ret
    /\ tc.config.score_range # FullRange
    /\ tc.call.score = tc.config.score_range[2]
    /\ tc.config.banned_tags # {} /\ tc.config.required_tags # {}
    /\ tc.config.atleast_num > 0

\* C2: an absent constraint never rejects: with required_tags, banned_tags,
\* atleast_tags (atleast_num = 0) or included_ratings empty, or with the full
\* score range, a record that satisfies the other conditions is accepted.
C2_EmptyConstraintPasses ==
    tc.call.pc = "done" =>
        /\ (tc.config.required_tags = {}
              /\ NoBanned /\ HasAtLeast /\ RatingIncluded /\ ScoreInRange) => tc.call.ret
        /\ (tc.config.banned_tags = {}
              /\ HasRequired /\ HasAtLeast /\ RatingIncluded /\ ScoreInRange) => tc.call.ret
        /\ (tc.config.atleast_tags = {} /\ tc.config.atleast_num = 0
              /\ NoBanned /\ HasRequired /\ RatingIncluded /\ ScoreInRange) => tc.call.ret
        /\ (tc.config.included_ratings = {}
              /\ NoBanned /\ HasRequired /\ HasAtLeast /\ ScoreInRange) => tc.call.ret
        /\ (tc.config.score_range = FullRange
              /\ NoBanned /\ HasRequired /\ HasAtLeast /\ RatingIncluded) => tc.call.ret

\* C7: exists_or_link(output_path, link_path). If output_path exists: true and
\* nothing changes. Else if link_path exists: true, and output_path is a new
\* symbolic link that resolves to link_path's file, nothing else changed. If
\* neither exists: false and nothing changes. A second call with the same
\* arguments returns what the first returned and changes nothing.
C7_ExistsOrLinkContract ==
    eol.cur.pc = "done" =>
        LET b == eol.cur.before
            n == eol.cur.name
            existed == PathExists(b, n, cfg.link_abs)
        IN  /\ existed => eol.cur.ret = "true" /\ fs = b
            /\ (~existed /\ n \in b.linkdir) =>
                  /\ eol.cur.ret = "true"
                  /\ fs = [b EXCEPT !.links = @ \cup {n}]
                  /\ LinkResolves(fs, n, cfg.link_abs)
            /\ (~existed /\ n \notin b.linkdir) => eol.cur.ret = "false" /\ fs = b
            /\ (eol.prev.pc = "done" /\ eol.prev.name = n) =>
                  eol.cur.ret = eol.prev.ret /\ fs = b

\* Whether tag_check rejects the record of metadata line id, under the
\* filter of the run.
Rejected(id) ==
    LET example == Example(lines[id]) IN
    ~TagCheck(example.tags, example.rating, example.score, tc.config.score_range,
              tc.config.included_ratings, tc.config.banned_tags,
              tc.config.required_tags, tc.config.atleast_tags, tc.config.atleast_num)

\* The index entries of record id, and the entries of save_dir named after it.
EntriesOf(id) == {k \in DOMAIN index.data : index.data[k].rec = id}

OutputsOf(id) == {n \in fs.files \cup fs.links : n[1] = id}

\* C3: a record tag_check rejects is never yielded by load_data, never
\* dispatched (inline or to the queue) and never in index.json; and in the
\* inline mode, once the index is written, each record that is not an archive
\* and whose normalization returned 1 has exactly one output in save_dir and
\* exactly one index entry, named after that output.
C3_OnlyAcceptedRecords ==
    /\ disp.pc \in {"body", "zip"} => ~Rejected(disp.example)
    /\ \A k \in DOMAIN obs.dispatched : ~Rejected(obs.dispatched[k][1])
    /\ \A k \in DOMAIN queue : queue[k] # None => ~Rejected(queue[k].info)
    /\ \A k \in DOMAIN index.data : ~Rejected(index.data[k].rec)
    /\ (disp.pc = "done" /\ ~cfg.faces) =>
          \A id \in DOMAIN lines :
              WriteFile(id, 0) \in obs.succeeded =>
                  /\ OutputsOf(id) = {WriteFile(id, 0)}
                  /\ Cardinality(EntriesOf(id)) = 1
                  /\ \A k \in EntriesOf(id) : index.data[k].filename = WriteFile(id, 0)

\* C3 witness: two records, one with a banned tag and one clean, inline mode:
\* the run ends with one image written and one index entry.
C3_Witness ==
    /\ disp.pc = "done" /\ ~cfg.faces /\ obs.run = 1
    /\ \E a, b \in DOMAIN lines :
          /\ lines[a] = "rej" /\ lines[b] = "jpg"
          /\ obs.wrote = {WriteFile(b, 0)} /\ fs.files = {WriteFile(b, 0)}
    /\ Len(index.data) = 1

\* The outputs the run produced: names an image was saved to and names an
\* inline call returned 1 for.
Produced == obs.wrote \cup obs.succeeded

\* C4: once the index is written, every output the run produced has exactly
\* one index entry holding its filename, so that a record with k outputs is
\* in the index k times with k pairwise distinct filenames.
C4_OneEntryPerOutput ==
    disp.pc = "done" =>
        /\ \A n \in Produced :
              Cardinality({k \in DOMAIN index.data : index.data[k].filename = n}) = 1
        /\ \A j, k \in DOMAIN index.data :
              j # k => index.data[j].filename # index.data[k].filename

\* C5: the tasks dispatched in a run (inline normalizations and Task
\* Descriptors put on the queue, archive entries one by one) never number
\* more than max_examples.
C5_DispatchedWithinCap == Len(obs.dispatched) <= cfg.max_examples

\* The task (record, archive entry) a file name belongs to.
TaskOf(n) == <<n[1], n[2]>>

\* C6: in a run without --overwrite after runs without --overwrite, no image
\* is written for a task that had an output in save_dir as the run began.
C6_RerunWritesNothing ==
    (obs.run >= 2 /\ obs.kept /\ ~cfg.overwrite) =>
        \A n \in obs.wrote : \A m \in obs.had : TaskOf(n) # TaskOf(m)

\* The record a failed item belongs to was an archive that did not open.
CorruptArchive(n) == n[2] = 0 /\ Example(lines[n[1]]).file_ext = "zip"

\* Whether file name m is an output of the failed item n: of the same task,
\* or for an archive that did not open, of the same record.
OutputOf(m, n) == IF CorruptArchive(n) THEN m[1] = n[1] ELSE TaskOf(m) = TaskOf(n)

\* C8: a missing or unreadable image, an archive that does not open and a
\* failing resize or save do not abort the run (only a line that is not JSON
\* ends it early); the failing item has no image written and no index entry;
\* it is counted in i like any other dispatched task (an archive that did not
\* open dispatches nothing), the loop can always go on to its next step, and
\* a run that reaches its end has written the index once.
C8_FailuresIsolated ==
    /\ disp.pc = "failed" => obs.stop = "parse"
    /\ disp.pc = "next" => ENABLED LoadData
    /\ (disp.pc \in {"body", "zip"} /\ ~cfg.faces) =>
          ENABLED (ResizeImage \/ OpenZip \/ ResizeEntry)
    /\ \A n \in obs.failed :
          /\ \A m \in obs.wrote : ~OutputOf(m, n)
          /\ IF CorruptArchive(n) THEN \A k \in DOMAIN obs.dispatched : obs.dispatched[k][1] # n[1]
             ELSE n \in obs.counted
          /\ obs.index_writes = 1 =>
                \A k \in DOMAIN index.data : ~OutputOf(index.data[k].filename, n)
    /\ disp.i = Cardinality(obs.counted)
    /\ disp.pc = "done" => obs.index_writes = 1 /\ index.exists

\* C8 witness: a run that ended with its index written, in which an image
\* failed to load or save and a record after it was dispatched and saved.
C8_Witness ==
    /\ disp.pc = "done" /\ obs.index_writes = 1
    /\ \E j, k \in DOMAIN obs.dispatched :
          /\ j < k /\ obs.dispatched[j] \in obs.failed
          /\ obs.dispatched[k][1] > obs.dispatched[j][1]
          /\ \E m \in obs.wrote : TaskOf(m) = TaskOf(obs.dispatched[k])
          /\ \E e \in DOMAIN index.data : index.data[e].rec = obs.dispatched[k][1]

\* C9: index.json is written at most once in a run, and only after the loop
\* over the records ended (end of the files or the cap), NCORE sentinels were
\* put, every pool process ended, and what every worker accumulated has been
\* merged: the list written is the dispatcher's own followed by
\* metadata_return, the count includes every worker's, and no worker ended
\* with results that never reached the shared lists.
C9_IndexOnceAfterMerge ==
    /\ obs.index_writes <= 1
    /\ obs.index_writes = 1 =>
          /\ disp.pc = "done"
          /\ obs.stop \in {"eof", "cap"}
          /\ disp.sentinels = NCORE /\ disp.closed
          /\ \A w \in 1..NCORE : workers[w].pc \in {"exited", "dead"}
          /\ index.data = Dump(disp.metadata, disp.filename) \o shared.metadata_return
          /\ disp.num_processed >= Sum(shared.num_processed_return)
          /\ ~obs.lost

\* C10: a run in which a metadata line is not JSON ends there and never
\* writes index.json, whatever it had processed: no index file after a first
\* run, and the file of the run before left as it was after a later one.
C10_ParseErrorNoIndex ==
    obs.stop = "parse" =>
        /\ disp.pc = "failed"
        /\ obs.index_writes = 0
        /\ disp.sentinels = 0
        /\ obs.run = 1 => ~index.exists

\* C10 witness: the line that is not JSON came after a record that was
\* dispatched and had its image written.
C10_Witness ==
    /\ obs.stop = "parse" /\ disp.pc = "failed"
    /\ obs.dispatched # << >> /\ obs.wrote # {}

\* Whether face slot i of the image of the last detect_faces call was
\* satisfied before the call: an entry of save_dir that exists, or a file of
\* link_dir to link to.
Satisfied(i) ==
    LET n == FaceFile(i, df.write_file) IN
    PathExists(df.before, n, cfg.link_abs) \/ n \in df.before.linkdir

\* The number of rectangles of the last call's image that pass the size check
\* and save.
Retained == Cardinality({j \in DOMAIN df.img.faces : df.img.faces[j] = "ok"})

\* C11: for an image none of whose face slots was satisfied before, whose
\* detection returns rectangles of which k pass the size check and save,
\* detect_faces returns the count k and k metadata entries, and the files it
\* wrote are exactly face0 .. face{k-1} of the image, however the discarded
\* and failed crops lie between the retained ones.
C11_SequentialFaceFiles ==
    (df.pc = "done" /\ cfg.cascade_ok /\ df.img.readable
       /\ \A i \in 0..(FaceSlots - 1) : ~Satisfied(i)) =>
        /\ df.out = "return"
        /\ df.num = Retained
        /\ Len(df.metadata) = Retained
        /\ df.wrote = {FaceFile(i, df.write_file) : i \in 0..(Retained - 1)}
        /\ fs.files = df.before.files \cup df.wrote

\* C11 witness: two crops saved with a discarded or failed one between them.
C11_Witness ==
    /\ df.pc = "done" /\ cfg.cascade_ok /\ df.img.readable
    /\ \A i \in 0..(FaceSlots - 1) : ~Satisfied(i)
    /\ Len(df.img.faces) = 3
    /\ df.img.faces[1] = "ok" /\ df.img.faces[2] # "ok" /\ df.img.faces[3] = "ok"
    /\ df.num = 2

\* The run comes to its end: the index written, or the parse error of C10.
RunEnds == <>(disp.pc = "done" \/ obs.stop = "parse")

\* At the end of a run NCORE sentinels were put and every worker took one and
\* left its loop: none is left in the queue, and every worker has appended its
\* count to num_processed_return.
EveryWorkerExited ==
    disp.pc = "done" =>
        /\ disp.sentinels = NCORE
        /\ queue = << >>
        /\ \A w \in 1..NCORE : workers[w].pc = "exited"
        /\ Len(shared.num_processed_return) = NCORE

\* C12: under fair scheduling every run whose metadata lines all parse comes
\* to the state in which the index is written: the dispatcher does not stay
\* blocked on the full queue, NCORE sentinels are put, every worker takes
\* exactly one sentinel and leaves its loop, and the join completes.
C12_ShutdownLiveness == RunEnds /\ []EveryWorkerExited

\* How often e occurs in the list q.
Count(q, e) == Cardinality({k \in DOMAIN q : q[k] = e})

\* The two lists hold the same entries, each as often in one as in the other.
SameBag(p, q) ==
    /\ Len(p) = Len(q)
    /\ \A k \in DOMAIN p : Count(p, p[k]) = Count(q, p[k])

\* The metadata the inline calls of the run appended, as index.json shows
\* them, and the count they added.
InlineMeta == Dump(disp.metadata, disp.filename)

InlineNum == Cardinality(obs.succeeded)

\* C13: in face mode the tasks passed to detect_faces are, one by one and in
\* order, the tasks the dispatcher put on the queue, none twice and at the end
\* of the run none missing; no task is behind a sentinel in the queue; and
\* after the join the count and the metadata list of the run are the sum and
\* the multiset union of what the calls of detect_faces returned, together
\* with the inline results.
C13_NoTaskLostOrDuplicated ==
    /\ cfg.faces =>
          /\ Len(obs.invoked) <= Len(obs.dispatched)
          /\ \A k \in DOMAIN obs.invoked : obs.invoked[k] = obs.dispatched[k]
          /\ \A j, k \in DOMAIN obs.invoked : j # k => obs.invoked[j] # obs.invoked[k]
          /\ Len(obs.invoked) + Cardinality({k \in DOMAIN queue : queue[k] # None})
                = Len(obs.dispatched)
    /\ ~cfg.faces => obs.invoked = << >> /\ queue \in Seq({None})
    /\ \A j, k \in DOMAIN queue : (j < k /\ queue[j] = None) => queue[k] = None
    /\ disp.pc = "done" =>
          /\ cfg.faces => obs.invoked = obs.dispatched
          /\ disp.num_processed = InlineNum + obs.result_num
          /\ SameBag(index.data, InlineMeta \o obs.result_meta)

\* The dispatcher's puts on the queue: of a task or of a sentinel.
Enqueue == PutImage \/ PutEntry \/ PutSentinel

Writers == {w \in 1..NCORE : workers[w].pc = "exited"}

\* Within a run the manager lists change only in the step of a worker that
\* took a sentinel, and that step adds one count.
SharedWrittenOnSentinel ==
    [][shared' # shared =>
          \/ Rerun
          \/ \E w \in 1..NCORE :
                /\ WorkerExit(w)
                /\ Len(shared'.num_processed_return) = Len(shared.num_processed_return) + 1]_vars

\* C15: a worker appends to the manager lists once, on its sentinel, and not
\* while it takes tasks: the lists hold one count for each worker that took a
\* sentinel and change in no other step; and once pool.join() has returned,
\* every worker having ended, num_processed_return holds NCORE counts, one
\* for each worker.
C15_OneWritePerWorker ==
    /\ SharedWrittenOnSentinel
    /\ [](Len(shared.num_processed_return) = Cardinality(Writers))
    /\ [](disp.pc \in {"write", "done"} => Len(shared.num_processed_return) = NCORE)

\* The face mode with the cascade file missing: detect_faces raises the
\* RuntimeError of line 450 on every call its pre-check does not end.
CascadeMissing == cfg.faces /\ ~cfg.cascade_ok

\* C16: with the cascade file missing the run still comes to its end, with
\* the sentinels put, the pool joined and index.json written once; a call of
\* detect_faces that raises ends no worker; and the counts and metadata the
\* workers had from their calls that returned are in the totals of the run.
C16_CascadeErrorIsolated ==
    /\ CascadeMissing ~> (disp.pc = "done" \/ obs.stop = "parse")
    /\ [](CascadeMissing =>
            /\ \A w \in 1..NCORE : workers[w].pc # "dead"
            /\ disp.pc = "done" =>
                  /\ disp.sentinels = NCORE /\ index.exists /\ obs.index_writes = 1
                  /\ Sum(shared.num_processed_return) = obs.result_num
                  /\ disp.num_processed = InlineNum + obs.result_num
                  /\ SameBag(shared.metadata_return, obs.result_meta))

\* The first slot the pre-check finds not satisfied after a satisfied one.
IsGap(j) == ~Satisfied(j) /\ \E i \in 0..(j - 1) : Satisfied(i)

Gap == CHOOSE j \in 0..(FaceSlots - 1) : IsGap(j) /\ \A i \in 0..(j - 1) : ~IsGap(i)

\* The call wrote no image: no file made in save_dir, none changed through a
\* link.
NoImageWritten ==
    df.wrote = {} /\ fs.files = df.before.files /\ fs.changed = df.before.changed

\* The call went on to detection with its count at 0: it raises for the
\* missing cascade file, returns (0, []) for an unreadable image, and else
\* returns what the crop loop alone counted and appended.
Detected(saved) ==
    /\ df.pre = "proceed"
    /\ IF ~cfg.cascade_ok THEN df.out = "raise" /\ NoImageWritten
       ELSE /\ df.out = "return"
            /\ Len(df.metadata) = df.num
            /\ df.num = Cardinality(df.wrote)
            /\ df.num \in saved
            /\ ~df.img.readable => df.num = 0 /\ NoImageWritten

\* C17: without --overwrite, when a slot of face0..face19 is satisfied and a
\* later one is not, detect_faces returns the number of slots satisfied
\* before that one with an empty metadata list, detects nothing and writes no
\* image; when no slot is satisfied, or all 20 are, it goes on to detection
\* with the count back at 0 (the claim is silent on the slots from some
\* slot on all being satisfied and none before). With --overwrite it goes on
\* to detection whatever the slots hold, and calls the resolver on none.
C17_PreCheck ==
    df.pc = "done" =>
        IF cfg.overwrite
        THEN Detected(0..Retained) /\ fs.links = df.before.links
        ELSE IF \E j \in 0..(FaceSlots - 1) : IsGap(j)
        THEN /\ df.out = "return" /\ df.pre = "return"
             /\ df.num = Cardinality({i \in 0..(Gap - 1) : Satisfied(i)})
             /\ df.metadata = << >>
             /\ NoImageWritten
        ELSE IF (\A i \in 0..(FaceSlots - 1) : ~Satisfied(i))
                  \/ (\A i \in 0..(FaceSlots - 1) : Satisfied(i))
        THEN Detected(0..Retained)
        ELSE TRUE

\* Twice and four times the origin asked for, x - (cropw - w)/2 and
\* y - (croph - h)/4.
OriginX2 == 2 * cw.rect.x - (cw.win.cropw - cw.rect.w)

OriginY4 == 4 * cw.rect.y - (cw.win.croph - cw.rect.h)

\* The rectangle lies in the image.
InBounds ==
    /\ cw.rect.x + cw.rect.w <= cw.rect.width
    /\ cw.rect.y + cw.rect.h <= cw.rect.height

\* C18: the window is w*face_scale wide and h*face_scale high; its origin is
\* (x - (cropw - w)/2, y - (croph - h)/4) cut to whole pixels, and 0 where
\* that is negative; crop_img is the part of the window inside the image, cut
\* at the right and lower edges; the crop goes on to be saved exactly if both
\* its height and its width are at least img_size; with face_scale 1 a
\* rectangle inside the image gives a crop of w by h at (x, y).
C18_CropWindow ==
    cw.pc = "done" =>
        /\ cw.win.cropw = cw.rect.w * cw.rect.face_scale
        /\ cw.win.croph = cw.rect.h * cw.rect.face_scale
        /\ cw.win.cropx >= 0 /\ cw.win.cropy >= 0
        /\ OriginX2 < 0 => cw.win.cropx = 0
        /\ OriginY4 < 0 => cw.win.cropy = 0
        /\ OriginX2 >= 0 => 2 * cw.win.cropx <= OriginX2 /\ OriginX2 < 2 * cw.win.cropx + 2
        /\ OriginY4 >= 0 => 4 * cw.win.cropy <= OriginY4 /\ OriginY4 < 4 * cw.win.cropy + 4
        /\ cw.win.cols = Cardinality((cw.win.cropx..(cw.win.cropx + cw.win.cropw - 1))
                                       \cap (0..(cw.rect.width - 1)))
        /\ cw.win.rows = Cardinality((cw.win.cropy..(cw.win.cropy + cw.win.croph - 1))
                                       \cap (0..(cw.rect.height - 1)))
        /\ cw.win.kept <=> (cw.win.rows >= cw.rect.img_size /\ cw.win.cols >= cw.rect.img_size)
        /\ (cw.rect.face_scale = 1 /\ InBounds) =>
              /\ cw.win.cropx = cw.rect.x /\ cw.win.cropy = cw.rect.y
              /\ cw.win.cols = cw.rect.w /\ cw.win.rows = cw.rect.h

\* C18 witness: a window clamped at the upper edge, cut short at the right
\* edge, and still large enough to be saved.
C18_Witness ==
    /\ cw.pc = "done" /\ cw.rect.face_scale = 2
    /\ OriginY4 < 0 /\ cw.win.cropy = 0
    /\ cw.win.cols < cw.win.cropw /\ cw.win.cols > 0
    /\ cw.rect.img_size > 0 /\ cw.win.kept

\* C19: over any sequence of runs on the same save_dir, with and without
\* --overwrite, no file of link_dir has its content changed: every name an
\* image was saved to is a regular file of save_dir, not a link into
\* link_dir.
C19_LinkDirUntouched ==
    /\ fs.changed = {}
    /\ \A n \in obs.wrote : n \in fs.files /\ n \notin fs.links

\* The tasks of the run that were handed to resize_and_save_image or to a
\* detect_faces call.
Handled == {obs.dispatched[k] : k \in DOMAIN obs.dispatched} \cap
           (IF cfg.faces THEN {obs.invoked[k] : k \in DOMAIN obs.invoked}
            ELSE {obs.dispatched[k] : k \in DOMAIN obs.dispatched})

\* With --overwrite the run has made no link, has counted no output as
\* present without making it, and has gone to open the source of every task
\* of those in ts.
NoResolver(ts) ==
    /\ fs.links \subseteq obs.had
    /\ obs.succeeded \subseteq obs.wrote
    /\ obs.result_num = Len(obs.result_meta)
    /\ ts \subseteq obs.loaded
    /\ (disp.pc = "done" /\ cfg.faces) => obs.invoked = obs.dispatched

\* C20 as stated: with --overwrite, in the inline and in the face mode, no
\* symbolic link is made by the run, no task is skipped for its output being
\* there already, and the source of every dispatched task is gone to be
\* opened.
C20_OverwriteSkipsResolver == cfg.overwrite => NoResolver(Handled)

\* C20 amended: the same, where in the face mode the cascade file is found;
\* a detect_faces call that does not find it raises before it opens the
\* source (line 450), and makes no link and skips nothing either.
C20_OverwriteSkipsResolverAmended ==
    cfg.overwrite => NoResolver(IF CascadeMissing THEN {} ELSE Handled)

\* C20 witness: a run with --overwrite over a save_dir that held the face
\* crop of a task already has opened the source and written the crop anew.
C20_Witness ==
    /\ cfg.overwrite /\ cfg.faces /\ disp.pc = "done"
    /\ \E t \in obs.loaded :
          FaceFile(0, t) \in obs.had /\ FaceFile(0, t) \in obs.wrote /\ t \in Handled

=============================================================================
